---------------------------- MODULE Spec2Model ----------------------------
(***************************************************************************)
(* A model of analyse.py (metazooa-analysis): the outline parser, the      *)
(* candidate binder, the LCA query, the ordering heuristic, the decision-  *)
(* tree synthesizer and the reporter with its self-checks.                 *)
(*                                                                         *)
(* Python objects are modelled by their identity: a TreeNode is its index  *)
(* in `nodes` (creation order), None is 0.  A text line is a sequence of   *)
(* one-character strings, a node name is the sequence of characters that   *)
(* calculate_depth cuts out of the line.  A species label (s['name']) is a *)
(* positive integer whose order stands for the string order of the label.  *)
(***************************************************************************)
EXTENDS Integers, Sequences, FiniteSets, TLC

VARIABLES
    nodes,       \* every TreeNode constructed so far, by identity
    SCIENTIFIC,  \* module global SCIENTIFIC: name -> TreeNode
    stack,       \* parse_phylo_tree's local `stack`: depth -> TreeNode
    root,        \* parse_phylo_tree's local `root`
    nread,       \* number of lines of the file consumed by the parse loop
    TREE,        \* module global TREE
    SPECIES,     \* module global SPECIES: label -> TreeNode
    ORDER,       \* module global ORDER
    DECIDE,      \* module global DECIDE
    report,      \* what print_decision_tree(DECIDE, set()) returned
    lcaSt,       \* the locals of one running lca_2nodes call
    pc           \* position in the module-level script

vars == <<nodes, SCIENTIFIC, stack, root, nread, TREE, SPECIES, ORDER,
          DECIDE, report, lcaSt, pc>>

---------------------------------------------------------------------------
(* Bounds of the model. *)

\* Lines of an outline file handed to the parser in one run.
MaxLines == 3
\* Largest marker column (0-based) of a line the line-by-line parser reads.
MaxIndent == 4
\* Nodes of an outline handed to the whole pipeline.
MaxNodes == 3
\* Nodes of an outline whose tree lca_2nodes is run on.
MaxLcaNodes == 4
\* Largest depth a line of an outline encodes.
MaxDepth == 2
\* Entries of the species list (game-<dataset>.json).
MaxSpecies == 3

---------------------------------------------------------------------------
(* Values. *)

None == 0

Letters == <<"a", "b", "c", "d", "e", "f">>

EmptyMap == [x \in {} |-> None]

Put(f, k, v) == [x \in (DOMAIN f) \cup {k} |-> IF x = k THEN v ELSE f[x]]

SetMax(S) == CHOOSE x \in S : \A y \in S : y <= x

SetMin(S) == CHOOSE x \in S : \A y \in S : x <= y

---------------------------------------------------------------------------
(* str.strip and str.startswith on character sequences. *)

IsSpace(c) == c = " "

RECURSIVE lstrip(_)
lstrip(s) ==
    IF s # <<>> /\ IsSpace(Head(s)) THEN lstrip(Tail(s)) ELSE s

RECURSIVE rstrip(_)
rstrip(s) ==
    IF s # <<>> /\ IsSpace(s[Len(s)])
    THEN rstrip(SubSeq(s, 1, Len(s) - 1))
    ELSE s

strip(s) == rstrip(lstrip(s))

startswith(line, prefixes) == line # <<>> /\ line[1] \in prefixes

---------------------------------------------------------------------------
(* calculate_depth(line): (depth, node_name). *)

\* The loop  for i in range(len(line) - 1)  with its break: the first
\* 0-based i with line[i] in '+\' and line[i+1] == '-', or -1.
RECURSIVE find_marker(_, _)
find_marker(line, i) ==
    IF i >= Len(line) - 1 THEN -1
    ELSE IF line[i + 1] \in {"+", "\\"} /\ line[i + 2] = "-" THEN i
    ELSE find_marker(line, i + 1)

calculate_depth(line) ==
    IF ~startswith(line, {" ", "|", "+", "\\"})
    THEN [depth |-> 0, name |-> strip(line)]
    ELSE LET marker_pos == find_marker(line, 0) IN
         IF marker_pos = -1
         THEN [depth |-> 0, name |-> <<>>]
         ELSE [depth |-> (marker_pos \div 2) + 1,
               name  |-> strip(SubSeq(line, marker_pos + 3, Len(line)))]

---------------------------------------------------------------------------
(* TreeNode. *)

TreeNode(scientific, depth) ==
    [scientific |-> scientific, depth |-> depth, children |-> <<>>,
     parent |-> None, leaves |-> {}, species |-> None]

\* parent.add_child(child) on the node table ns.
add_child(ns, parent, child) ==
    [ns EXCEPT ![child].parent = parent,
               ![parent].children = Append(@, child)]

---------------------------------------------------------------------------
(* parse_phylo_tree: the body of  for line in lines. *)

\* The  while parent_depth >= 0  scan: the frontier entry at the nearest
\* depth at or below parent_depth, or None when the scan runs out.
RECURSIVE find_parent(_, _)
find_parent(stk, parent_depth) ==
    IF parent_depth < 0 THEN None
    ELSE IF parent_depth \in DOMAIN stk THEN stk[parent_depth]
    ELSE find_parent(stk, parent_depth - 1)

\* stack[depth] = node, then the deeper levels are deleted.
update_stack(stk, depth, node) ==
    [d \in {x \in (DOMAIN stk) \cup {depth} : x <= depth} |->
        IF d = depth THEN node ELSE stk[d]]

\* One iteration on parser state ps = [nodes, SCIENTIFIC, stack, root].
parse_line(ps, line) ==
    IF strip(line) = <<>> THEN ps
    ELSE
    LET cd == calculate_depth(line) IN
    IF cd.name = <<>> THEN ps
    ELSE
    LET node    == Len(ps.nodes) + 1
        created == Append(ps.nodes, TreeNode(cd.name, cd.depth))
        reg     == Put(ps.SCIENTIFIC, cd.name, node)
    IN
    IF ps.root = None
    THEN [nodes |-> created, SCIENTIFIC |-> reg,
          stack |-> Put(ps.stack, cd.depth, node), root |-> node]
    ELSE
    LET parent == find_parent(ps.stack, cd.depth - 1) IN
    [nodes |-> IF parent = None THEN created
               ELSE add_child(created, parent, node),
     SCIENTIFIC |-> reg,
     stack |-> update_stack(ps.stack, cd.depth, node),
     root |-> ps.root]

ParserStart(registry) ==
    [nodes |-> <<>>, SCIENTIFIC |-> registry, stack |-> EmptyMap, root |-> None]

RECURSIVE parse_lines(_, _)
parse_lines(ps, lines) ==
    IF lines = <<>> THEN ps
    ELSE parse_lines(parse_line(ps, Head(lines)), Tail(lines))

\* parse_phylo_tree(file) for a file holding `lines`.
parse_phylo_tree(lines) == parse_lines(ParserStart(EmptyMap), lines)

---------------------------------------------------------------------------
(* Input lines. *)

\* k columns of tree-drawing prefix: '|' on even columns, ' ' on odd ones.
RECURSIVE Pad(_)
Pad(k) == IF k = 0 THEN <<>>
          ELSE Append(Pad(k - 1), IF (k - 1) % 2 = 0 THEN "|" ELSE " ")

\* The names the line-by-line parser meets.
ParseNames == {<<"a">>, <<"b">>, <<"a", " ", "b">>}

\* Lines for the line-by-line parser: bare names, marked lines at every
\* column up to MaxIndent with either glyph (with and without a name, with
\* blanks around the name), blank lines, and prefixed lines with no marker.
ParseLines ==
       ParseNames
    \cup { Pad(k) \o <<m, "-">> \o nm :
              k \in 0..MaxIndent, m \in {"+", "\\"},
              nm \in ParseNames \cup {<<>>, <<" ">>, <<" ", "b", " ">>} }
    \cup { <<>>, <<" ", " ">>, <<"|", " ", "a">>, <<"+", "a">>, <<"-", "a">> }

---------------------------------------------------------------------------
(* The Candidate Binder: the body of  for s in species. *)

\* while t is not None: t.leaves.add(label); t = t.parent
RECURSIVE add_leaves(_, _, _)
add_leaves(ns, t, label) ==
    IF t = None THEN ns
    ELSE add_leaves([ns EXCEPT ![t].leaves = @ \cup {label}],
                    ns[t].parent, label)

\* t = SCIENTIFIC[s['scientific']]; t.species = s['name']; the leaf walk.
bind_species(ns, t, label) ==
    add_leaves([ns EXCEPT ![t].species = label], t, label)

---------------------------------------------------------------------------
(* lca_2nodes, one loop test at a time.  The locals are a, b and the loop  *)
(* the call is in; reading .depth or .parent of None raises                *)
(* AttributeError, which ends the call (and the run).                      *)

AttributeError == -1

\* The state of a call just entered; `args` keeps the arguments.
lca_start(a, b) == [a |-> a, b |-> b, at |-> "loopA", args |-> <<a, b>>]

LcaIdle == [a |-> None, b |-> None, at |-> "idle", args |-> <<None, None>>]

\* A faulty variant of lca_step that never levels b up to a.
lca_step_unlevelled(st) ==
    CASE st.at = "loopA" ->
            IF st.a = None \/ st.b = None THEN [st EXCEPT !.at = "raised"]
            ELSE IF nodes[st.a].depth > nodes[st.b].depth
                 THEN [st EXCEPT !.a = nodes[st.a].parent]
                 ELSE [st EXCEPT !.at = "loopB"]
      [] st.at = "loopB" -> [st EXCEPT !.at = "loopBoth"]
      [] st.at = "loopBoth" ->
            IF st.a = st.b THEN [st EXCEPT !.at = "returned"]
            ELSE IF st.a = None THEN [st EXCEPT !.at = "raised"]
            ELSE IF st.b = None
                 THEN [st EXCEPT !.a = nodes[st.a].parent, !.at = "raised"]
                 ELSE [st EXCEPT !.a = nodes[st.a].parent,
                                 !.b = nodes[st.b].parent]
      [] OTHER -> st

lca_step(st) ==
    CASE st.at = "loopA" ->
            IF st.a = None \/ st.b = None THEN [st EXCEPT !.at = "raised"]
            ELSE IF nodes[st.a].depth > nodes[st.b].depth
                 THEN [st EXCEPT !.a = nodes[st.a].parent]
                 ELSE [st EXCEPT !.at = "loopB"]
      [] st.at = "loopB" ->
            IF st.a = None \/ st.b = None THEN [st EXCEPT !.at = "raised"]
            ELSE IF nodes[st.b].depth > nodes[st.a].depth
                 THEN [st EXCEPT !.b = nodes[st.b].parent]
                 ELSE [st EXCEPT !.at = "loopBoth"]
      [] st.at = "loopBoth" ->
            IF st.a = st.b THEN [st EXCEPT !.at = "returned"]
            ELSE IF st.a = None THEN [st EXCEPT !.at = "raised"]
            ELSE IF st.b = None
                 THEN [st EXCEPT !.a = nodes[st.a].parent, !.at = "raised"]
                 ELSE [st EXCEPT !.a = nodes[st.a].parent,
                                 !.b = nodes[st.b].parent]
      [] OTHER -> st

RECURSIVE lca_run(_)
lca_run(st) ==
    IF st.at = "returned" THEN st.a
    ELSE IF st.at = "raised" THEN AttributeError
    ELSE lca_run(lca_step(st))

lca_2nodes(a, b) == lca_run(lca_start(a, b))

\* lca_species(*lst): the left fold of lca_2nodes over SPECIES[label].
RECURSIVE lca_fold(_, _)
lca_fold(ret, rest) ==
    IF rest = <<>> \/ ret = AttributeError THEN ret
    ELSE lca_fold(lca_2nodes(ret, SPECIES[Head(rest)]), Tail(rest))

lca_species(lst) == lca_fold(SPECIES[Head(lst)], Tail(lst))

---------------------------------------------------------------------------
(* Results of the functions that can raise. *)

Fail(err) == [ok |-> FALSE, err |-> err]

\* Every order a Python set may be iterated in.
RECURSIVE Enumerations(_)
Enumerations(S) ==
    IF S = {} THEN {<<>>}
    ELSE UNION {{<<x>> \o p : p \in Enumerations(S \ {x})} : x \in S}

---------------------------------------------------------------------------
(* get_successors(poss, guess), with poss iterated in the order `enum`. *)

\* The index of the bucket keyed new_lca, or 0.
bucket_of(ret, new_lca) ==
    LET hits == {i \in DOMAIN ret : ret[i].lca = new_lca} IN
    IF hits = {} THEN 0 ELSE SetMin(hits)

\* A faulty variant of new_lca_of that keys the bucket by real's own node.
new_lca_of_real_only(guess, real) == lca_species(<<real>>)

\* new_lca = lca_species(guess, real)
new_lca_of(guess, real) == lca_species(<<guess, real>>)

\* A faulty variant of add_to_bucket that drops real.
add_to_bucket_dropping(ret, i, real) == ret

\* ret[i][1].add(real)
add_to_bucket(ret, i, real) == [ret EXCEPT ![i].poss = @ \cup {real}]

RECURSIVE successors_loop(_, _, _)
successors_loop(enum, guess, ret) ==
    IF enum = <<>> THEN [ok |-> TRUE, succ |-> ret]
    ELSE
    LET real == Head(enum) IN
    IF real = guess THEN successors_loop(Tail(enum), guess, ret)
    ELSE
    LET new_lca == new_lca_of(guess, real) IN
    IF new_lca = AttributeError THEN Fail("AttributeError")
    ELSE
    LET i == bucket_of(ret, new_lca) IN
    successors_loop(Tail(enum), guess,
        IF i # 0 THEN add_to_bucket(ret, i, real)
        ELSE Append(ret, [lca |-> new_lca, poss |-> {real}]))

get_successors(enum, guess) == successors_loop(enum, guess, <<>>)

---------------------------------------------------------------------------
(* build_minavg_order(node). *)

\* Python's list comparison a < b on label lists.
RECURSIVE list_less(_, _)
list_less(a, b) ==
    IF b = <<>> THEN FALSE
    ELSE IF a = <<>> THEN TRUE
    ELSE IF Head(a) # Head(b) THEN Head(a) < Head(b)
    ELSE list_less(Tail(a), Tail(b))

\* key(x) < key(y) for key = (-len(x[0].leaves), x[1]).
minavg_key_less(x, y) ==
    LET cx == Cardinality(nodes[x.sub].leaves)
        cy == Cardinality(nodes[y.sub].leaves)
    IN  -cx < -cy \/ (-cx = -cy /\ list_less(x.order, y.order))

\* list.sort is stable: x goes in before the first element that sorts
\* strictly after it.
RECURSIVE minavg_insert(_, _)
minavg_insert(sorted, x) ==
    IF sorted = <<>> THEN <<x>>
    ELSE IF minavg_key_less(x, Head(sorted)) THEN <<x>> \o sorted
    ELSE <<Head(sorted)>> \o minavg_insert(Tail(sorted), x)

RECURSIVE minavg_sort(_, _)
minavg_sort(sorted, rest) ==
    IF rest = <<>> THEN sorted
    ELSE minavg_sort(minavg_insert(sorted, Head(rest)), Tail(rest))

RECURSIVE concat_orders(_)
concat_orders(child_orders) ==
    IF child_orders = <<>> THEN <<>>
    ELSE Head(child_orders).order \o concat_orders(Tail(child_orders))

RECURSIVE build_minavg_order(_)
build_minavg_order(node) ==
    LET child_orders ==
            [i \in DOMAIN nodes[node].children |->
                [sub |-> nodes[node].children[i],
                 order |-> build_minavg_order(nodes[node].children[i])]]
        ret == concat_orders(minavg_sort(<<>>, child_orders))
    IN  IF nodes[node].species # None
        THEN Append(ret, nodes[node].species)
        ELSE ret

---------------------------------------------------------------------------
(* order_to_decision_tree(node, poss, order): every tuple the call can     *)
(* return, one per order in which the poss sets can be iterated, or what   *)
(* it raises.                                                              *)

RECURSIVE first_of_order(_, _)
first_of_order(order, poss) ==
    IF order = <<>> THEN None
    ELSE IF Head(order) \in poss THEN Head(order)
    ELSE first_of_order(Tail(order), poss)

\* The list comprehension over succ: the first child that raises ends it.
\* The index of that child, or 0.
first_failure(subs) ==
    LET failed == {i \in DOMAIN subs : ~subs[i].ok} IN
    IF failed = {} THEN 0 ELSE SetMin(failed)

RECURSIVE order_to_decision_tree(_, _, _)
RECURSIVE decision_subtrees(_, _)

decision_subtrees(succ, order) ==
    IF succ = <<>> THEN {<<>>}
    ELSE {<<t>> \o rest :
            t \in order_to_decision_tree(Head(succ).lca, Head(succ).poss, order),
            rest \in decision_subtrees(Tail(succ), order)}

order_to_decision_tree(node, poss, order) ==
    LET guess == first_of_order(order, poss) IN
    IF guess = None THEN {Fail("AssertionError 201")}
    ELSE
    UNION {
        LET s == get_successors(enum, guess) IN
        IF ~s.ok THEN {s}
        ELSE { IF first_failure(subs) # 0 THEN subs[first_failure(subs)]
               ELSE [ok |-> TRUE, node |-> node, guess |-> guess, subs |-> subs] :
               subs \in decision_subtrees(s.succ, order) }
        : enum \in Enumerations(poss) }

---------------------------------------------------------------------------
(* print_decision_tree(tree, guesses): every value the call can return, or *)
(* what it raises, one per order in which its sets can be iterated.        *)

\* subs.sort(key=lambda x: x[0].depth), stable.
RECURSIVE depth_insert(_, _)
depth_insert(sorted, x) ==
    IF sorted = <<>> THEN <<x>>
    ELSE IF nodes[x.node].depth < nodes[Head(sorted).node].depth
         THEN <<x>> \o sorted
         ELSE <<Head(sorted)>> \o depth_insert(Tail(sorted), x)

RECURSIVE depth_sort(_, _)
depth_sort(sorted, rest) ==
    IF rest = <<>> THEN sorted
    ELSE depth_sort(depth_insert(sorted, Head(rest)), Tail(rest))

\* A faulty variant of sort_subs that leaves subs in bucket order.
sort_subs_skipped(subs) == subs

sort_subs(subs) == depth_sort(<<>>, subs)

\* f"{sum_guesses / len(species):.4g}": four significant digits, as the
\* digits and their scale (no quotient of the model lies on a rounding tie).
format_avg(sum_guesses, cnt) ==
    LET scale == IF sum_guesses < 10 * cnt THEN 1000
                 ELSE IF sum_guesses < 100 * cnt THEN 100 ELSE 10
    IN  [digits |-> (2 * sum_guesses * scale + cnt) \div (2 * cnt),
         scale  |-> scale]

\* The inner loop of the sanity check for one spec, guesses in order enum.
RECURSIVE best_lca_loop(_, _, _)
best_lca_loop(spec, enum, best_lca) ==
    IF enum = <<>> THEN best_lca
    ELSE
    LET lca == lca_species(<<spec, Head(enum)>>) IN
    IF lca = AttributeError THEN AttributeError
    ELSE IF best_lca = None THEN best_lca_loop(spec, Tail(enum), lca)
    ELSE IF lca = None THEN AttributeError
    ELSE IF nodes[lca].depth > nodes[best_lca].depth
         THEN best_lca_loop(spec, Tail(enum), lca)
         ELSE best_lca_loop(spec, Tail(enum), best_lca)

\* best_lca for spec, one value per iteration order of guesses.
best_lcas(spec, guesses) ==
    {best_lca_loop(spec, enum, TREE) : enum \in Enumerations(guesses)}

\* How the sanity check of one spec can end.
sanity_check(spec, guesses, node) ==
    {IF b = AttributeError THEN "AttributeError"
     ELSE IF b = node THEN "ok" ELSE "AssertionError 233" :
     b \in best_lcas(spec, guesses)}

\* How  for spec in species  can end: with the failure of any spec that can
\* fail (it may be iterated first), or passing when every spec can pass.
sanity_checks(species, guesses, node) ==
    LET failures == UNION {sanity_check(spec, guesses, node) \ {"ok"} :
                           spec \in species}
    IN  failures \cup
        (IF \A spec \in species : "ok" \in sanity_check(spec, guesses, node)
         THEN {"ok"} ELSE {})

\* A faulty variant of print_accumulate that does not count the extra guess
\* of each species below.
print_accumulate_uncounted(acc, r) ==
    [ok |-> TRUE,
     desc |-> acc.desc \o r.desc,
     max_guesses |-> IF r.max_guesses + 1 > acc.max_guesses
                     THEN r.max_guesses + 1 ELSE acc.max_guesses,
     sum_guesses |-> acc.sum_guesses + r.sum_guesses,
     species |-> acc.species \cup r.species]

\* One pass of the loop body after the recursive call returned r:
\* subdesc, max_guesses, sum_guesses and species updated.
print_accumulate(acc, r) ==
    [ok |-> TRUE,
     desc |-> acc.desc \o r.desc,
     max_guesses |-> IF r.max_guesses + 1 > acc.max_guesses
                     THEN r.max_guesses + 1 ELSE acc.max_guesses,
     sum_guesses |-> acc.sum_guesses + r.sum_guesses + Cardinality(r.species),
     species |-> acc.species \cup r.species]

RECURSIVE print_decision_tree(_, _)
RECURSIVE print_subs(_, _, _)

\* The loop  for sub in subs  from the accumulated acc.
print_subs(subs, sub_guesses, acc) ==
    IF subs = <<>> THEN {acc}
    ELSE UNION {
        IF ~r.ok THEN {r}
        ELSE IF acc.species \cap r.species # {}
        THEN {Fail("AssertionError 223")}
        ELSE print_subs(Tail(subs), sub_guesses, print_accumulate(acc, r))
        : r \in print_decision_tree(Head(subs), sub_guesses) }

print_decision_tree(tree, guesses) ==
    IF \E i \in DOMAIN tree.subs : tree.subs[i].node = None
    THEN {Fail("AttributeError")}
    ELSE
    LET subs == sort_subs(tree.subs)
        walked == print_subs(subs, guesses \cup {tree.guess},
                    [ok |-> TRUE, desc |-> <<>>, max_guesses |-> 1,
                     sum_guesses |-> 1, species |-> {tree.guess}])
    IN  UNION {
        IF ~w.ok THEN {w}
        ELSE {
            IF check # "ok" THEN Fail(check)
            ELSE IF tree.node = None THEN Fail("AttributeError")
            ELSE IF ~(w.species \subseteq nodes[tree.node].leaves)
            THEN Fail("AssertionError 235")
            ELSE [w EXCEPT !.desc =
                    <<[indent |-> Cardinality(guesses),
                       scientific |-> nodes[tree.node].scientific,
                       guess |-> tree.guess,
                       max |-> w.max_guesses,
                       avg |-> format_avg(w.sum_guesses, Cardinality(w.species)),
                       cnt |-> Cardinality(w.species)]>> \o w.desc]
            : check \in sanity_checks(w.species, guesses, tree.node) }
        : w \in walked }

---------------------------------------------------------------------------
(* Outlines: the i-th named line carries the i-th letter as its name, at   *)
(* any depth up to MaxDepth.                                               *)

\* The line that encodes `name` at depth d: the bare name at depth 0, else
\* the marker at column 2 * (d - 1).
OutlineLine(d, name) ==
    IF d = 0 THEN name ELSE Pad(2 * (d - 1)) \o <<"+", "-">> \o name

OutlinesOf(n) ==
    { [i \in 1..n |-> OutlineLine(ds[i], <<Letters[i]>>)] :
      ds \in [1..n -> 0..MaxDepth] }

\* The outlines handed to the whole pipeline: at most MaxNodes named lines,
\* the first of them a bare root name.
Outlines ==
    UNION {{o \in OutlinesOf(n) : n > 0 => o[1] = <<Letters[1]>>} :
           n \in 0..MaxNodes}

\* The outlines lca_2nodes is run on: at most MaxLcaNodes named lines.
LcaOutlines == UNION {OutlinesOf(n) : n \in 1..MaxLcaNodes}

---------------------------------------------------------------------------
(* The module-level script. *)

Init ==
    /\ nodes = <<>>
    /\ SCIENTIFIC = EmptyMap
    /\ stack = EmptyMap
    /\ root = None
    /\ nread = 0
    /\ TREE = None
    /\ SPECIES = EmptyMap
    /\ ORDER = <<>>
    /\ DECIDE = Fail("unset")
    /\ report = Fail("unset")
    /\ lcaSt = LcaIdle
    /\ pc = "start"

\* TREE = parse_phylo_tree(...) on a file holding one of the outlines.
Parse ==
    /\ pc = "start"
    /\ \E lines \in Outlines :
         LET ps == parse_phylo_tree(lines) IN
         /\ nodes' = ps.nodes
         /\ SCIENTIFIC' = ps.SCIENTIFIC
         /\ TREE' = ps.root
    /\ pc' = "bind"
    /\ UNCHANGED <<stack, root, nread, SPECIES, ORDER, DECIDE, report, lcaSt>>

\* One entry of the species list whose scientific name is registered.  The
\* labels of the list are unique (the list is the game's species table) and
\* the list is read in label order: its k-th entry carries label k.
Bind ==
    /\ pc = "bind"
    /\ Cardinality(DOMAIN SPECIES) < MaxSpecies
    /\ \E sci \in DOMAIN SCIENTIFIC :
         LET label == Cardinality(DOMAIN SPECIES) + 1
             t == SCIENTIFIC[sci] IN
         /\ nodes' = bind_species(nodes, t, label)
         /\ SPECIES' = Put(SPECIES, label, t)
    /\ UNCHANGED <<SCIENTIFIC, stack, root, nread, TREE, ORDER, DECIDE,
                   report, lcaSt, pc>>

\* One entry whose scientific name is not registered: SCIENTIFIC[...] raises
\* KeyError.
BindRaises ==
    /\ pc = "bind"
    /\ Cardinality(DOMAIN SPECIES) < MaxSpecies
    /\ \E i \in 1..Len(Letters) : <<Letters[i]>> \notin DOMAIN SCIENTIFIC
    /\ pc' = "raised"
    /\ report' = Fail("KeyError")
    /\ UNCHANGED <<nodes, SCIENTIFIC, stack, root, nread, TREE, SPECIES,
                   ORDER, DECIDE, lcaSt>>

\* ORDER = build_minavg_order(TREE), the species list being exhausted.
BuildOrder ==
    /\ pc = "bind"
    /\ TREE # None
    /\ ORDER' = build_minavg_order(TREE)
    /\ pc' = "ordered"
    /\ UNCHANGED <<nodes, SCIENTIFIC, stack, root, nread, TREE, SPECIES,
                   DECIDE, report, lcaSt>>

\* build_minavg_order(None) on the tree of an outline with no named line:
\* node.children raises AttributeError.
BuildOrderRaises ==
    /\ pc = "bind"
    /\ TREE = None
    /\ report' = Fail("AttributeError")
    /\ pc' = "raised"
    /\ UNCHANGED <<nodes, SCIENTIFIC, stack, root, nread, TREE, SPECIES,
                   ORDER, DECIDE, lcaSt>>

\* DECIDE = order_to_decision_tree(TREE, set(TREE.leaves), ORDER)
Decide ==
    /\ pc = "ordered"
    /\ \E t \in order_to_decision_tree(TREE, nodes[TREE].leaves, ORDER) :
         /\ t.ok
         /\ DECIDE' = t
    /\ pc' = "decided"
    /\ UNCHANGED <<nodes, SCIENTIFIC, stack, root, nread, TREE, SPECIES,
                   ORDER, report, lcaSt>>

DecideRaises ==
    /\ pc = "ordered"
    /\ \E t \in order_to_decision_tree(TREE, nodes[TREE].leaves, ORDER) :
         /\ ~t.ok
         /\ report' = t
    /\ pc' = "raised"
    /\ UNCHANGED <<nodes, SCIENTIFIC, stack, root, nread, TREE, SPECIES,
                   ORDER, DECIDE, lcaSt>>

\* desc, _, _, species = print_decision_tree(DECIDE, set());
\* assert species == TREE.leaves; f.write(desc)
Report ==
    /\ pc = "decided"
    /\ \E r \in print_decision_tree(DECIDE, {}) :
         /\ IF r.ok THEN r.species = nodes[TREE].leaves ELSE FALSE
         /\ report' = r
    /\ pc' = "done"
    /\ UNCHANGED <<nodes, SCIENTIFIC, stack, root, nread, TREE, SPECIES,
                   ORDER, DECIDE, lcaSt>>

ReportRaises ==
    /\ pc = "decided"
    /\ \E r \in print_decision_tree(DECIDE, {}) :
         /\ IF r.ok THEN r.species # nodes[TREE].leaves ELSE TRUE
         /\ report' = IF r.ok THEN Fail("AssertionError 248") ELSE r
    /\ pc' = "raised"
    /\ UNCHANGED <<nodes, SCIENTIFIC, stack, root, nread, TREE, SPECIES,
                   ORDER, DECIDE, lcaSt>>

Next ==
    \/ Parse
    \/ Bind
    \/ BindRaises
    \/ BuildOrder
    \/ BuildOrderRaises
    \/ Decide
    \/ DecideRaises
    \/ Report
    \/ ReportRaises

Spec == Init /\ [][Next]_vars

---------------------------------------------------------------------------
(* The parse loop line by line, over every line of ParseLines. *)

ParseLine ==
    /\ pc = "start"
    /\ nread < MaxLines
    /\ \E line \in ParseLines :
         LET ps == parse_line([nodes |-> nodes, SCIENTIFIC |-> SCIENTIFIC,
                               stack |-> stack, root |-> root], line)
         IN  /\ nodes' = ps.nodes
             /\ SCIENTIFIC' = ps.SCIENTIFIC
             /\ stack' = ps.stack
             /\ root' = ps.root
    /\ nread' = nread + 1
    /\ UNCHANGED <<TREE, SPECIES, ORDER, DECIDE, report, lcaSt, pc>>

\* The file is exhausted: return root, bound to TREE.
ParseReturn ==
    /\ pc = "start"
    /\ TREE' = root
    /\ pc' = "bind"
    /\ UNCHANGED <<nodes, SCIENTIFIC, stack, root, nread, SPECIES, ORDER,
                   DECIDE, report, lcaSt>>

NextParse == ParseLine \/ ParseReturn

SpecParse == Init /\ [][NextParse]_vars

---------------------------------------------------------------------------
(* lca_2nodes called on any two nodes of a parsed tree, run one loop test  *)
(* at a time.  The interpreter keeps running a call it has entered.        *)

InitLca ==
    /\ \E lines \in LcaOutlines :
         LET ps == parse_phylo_tree(lines) IN
         /\ nodes = ps.nodes
         /\ SCIENTIFIC = ps.SCIENTIFIC
         /\ TREE = ps.root
    /\ stack = EmptyMap
    /\ root = None
    /\ nread = 0
    /\ SPECIES = EmptyMap
    /\ ORDER = <<>>
    /\ DECIDE = Fail("unset")
    /\ report = Fail("unset")
    /\ lcaSt = LcaIdle
    /\ pc = "bind"

LcaCall ==
    /\ lcaSt.at \in {"idle", "returned", "raised"}
    /\ \E a, b \in DOMAIN nodes : lcaSt' = lca_start(a, b)
    /\ UNCHANGED <<nodes, SCIENTIFIC, stack, root, nread, TREE, SPECIES,
                   ORDER, DECIDE, report, pc>>

LcaStep ==
    /\ lcaSt.at \in {"loopA", "loopB", "loopBoth"}
    /\ lcaSt' = lca_step(lcaSt)
    /\ UNCHANGED <<nodes, SCIENTIFIC, stack, root, nread, TREE, SPECIES,
                   ORDER, DECIDE, report, pc>>

NextLca == LcaCall \/ LcaStep

SpecLca == InitLca /\ [][NextLca]_vars /\ WF_vars(LcaStep)

---------------------------------------------------------------------------
(* Reference notions the properties are stated with.  None of them uses    *)
(* lca_2nodes, get_successors or the statistics of print_decision_tree.    *)

Range(f) == {f[i] : i \in DOMAIN f}

RECURSIVE AncestorsOrSelf(_)
AncestorsOrSelf(n) ==
    IF n = None THEN {} ELSE {n} \cup AncestorsOrSelf(nodes[n].parent)

CommonAncestors(a, b) == AncestorsOrSelf(a) \cap AncestorsOrSelf(b)

Deepest(S) == CHOOSE c \in S : \A d \in S : nodes[d].depth <= nodes[c].depth

\* One root, and every other node has a parent one level up.
WellFormedTree ==
    /\ TREE # None
    /\ \A n \in DOMAIN nodes :
         IF n = TREE THEN nodes[n].parent = None
         ELSE /\ nodes[n].parent # None
              /\ nodes[nodes[n].parent].depth = nodes[n].depth - 1

\* Every node but the root has a parent.
NoUnparentedNode ==
    \A n \in DOMAIN nodes : n # TREE => nodes[n].parent # None

\* No two nodes carry the same name.
UniqueNames ==
    \A m, n \in DOMAIN nodes :
      nodes[m].scientific = nodes[n].scientific => m = n

\* The decision nodes of tree t, each with the guesses made above it.
RECURSIVE DecisionNodes(_, _)
DecisionNodes(t, guesses) ==
    {[tree |-> t, guesses |-> guesses]} \cup
    UNION {DecisionNodes(t.subs[i], guesses \cup {t.guess}) : i \in DOMAIN t.subs}

\* The species resolved at or below decision node t.
RECURSIVE Resolved(_)
Resolved(t) == {t.guess} \cup UNION {Resolved(t.subs[i]) : i \in DOMAIN t.subs}

\* The number of decision nodes of t.
RECURSIVE Size(_)
RECURSIVE SizeOfSubs(_)
SizeOfSubs(subs) ==
    IF subs = <<>> THEN 0 ELSE Size(Head(subs)) + SizeOfSubs(Tail(subs))
Size(t) == 1 + SizeOfSubs(t.subs)

\* The number of guesses from decision node t down to and including the
\* node that guesses s.
RECURSIVE GuessesTo(_, _)
GuessesTo(t, s) ==
    IF t.guess = s THEN 1
    ELSE 1 + GuessesTo(t.subs[CHOOSE i \in DOMAIN t.subs : s \in Resolved(t.subs[i])], s)

RECURSIVE SumOver(_, _)
SumOver(t, S) ==
    IF S = {} THEN 0
    ELSE LET s == CHOOSE x \in S : TRUE IN GuessesTo(t, s) + SumOver(t, S \ {s})

\* The decision tree as a mapping: the guess and, per outcome, the child.
RECURSIVE BranchMap(_)
BranchMap(t) ==
    [node |-> t.node, guess |-> t.guess,
     branches |-> {BranchMap(t.subs[i]) : i \in DOMAIN t.subs}]

AllDecisionNodes == DecisionNodes(DECIDE, {})

Synthesized == pc \in {"decided", "done"} \/ (pc = "raised" /\ DECIDE.ok)

---------------------------------------------------------------------------
(* C1: in the synthesized decision tree the candidate sets of sibling      *)
(* branches are pairwise disjoint, none holds the parent's guess, every    *)
(* call of get_successors splits what is left of its candidates into its   *)
(* buckets, and the guesses of the whole tree are exactly root.leaves,     *)
(* each made once.                                                         *)
SynthesizerPartitionsCandidates ==
    Synthesized =>
      /\ Resolved(DECIDE) = nodes[TREE].leaves
      /\ Size(DECIDE) = Cardinality(nodes[TREE].leaves)
      /\ \A dn \in AllDecisionNodes :
           LET t == dn.tree IN
           /\ \A i, j \in DOMAIN t.subs :
                i # j => Resolved(t.subs[i]) \cap Resolved(t.subs[j]) = {}
           /\ \A i \in DOMAIN t.subs : t.guess \notin Resolved(t.subs[i])
           /\ \A enum \in Enumerations(Resolved(t)) :
                LET s == get_successors(enum, t.guess) IN
                /\ s.ok
                /\ \A i, j \in DOMAIN s.succ :
                     i # j => s.succ[i].poss \cap s.succ[j].poss = {}
                /\ UNION {s.succ[i].poss : i \in DOMAIN s.succ}
                     = Resolved(t) \ {t.guess}
                /\ {s.succ[i].poss : i \in DOMAIN s.succ}
                     = {Resolved(t.subs[i]) : i \in DOMAIN t.subs}

\* A synthesized tree whose root has two sibling branches.
SynthesizerPartitionsCandidates_witness ==
    /\ pc = "decided"
    /\ Len(DECIDE.subs) = 2
    /\ Resolved(DECIDE) = DOMAIN SPECIES

---------------------------------------------------------------------------
(* C2: the placement assertion of print_decision_tree never fails, and for *)
(* every decision node and every species resolved at or below it, the      *)
(* deepest of the LCAs of that species with the guesses made above the     *)
(* node (the root when there are none) is the node's subject.              *)
DeepestLcaWithGuesses(spec, guesses) ==
    IF guesses = {} THEN {TREE}
    ELSE LET lcas == {Deepest(CommonAncestors(SPECIES[spec], SPECIES[g])) :
                      g \in guesses}
         IN  {c \in lcas : \A d \in lcas : nodes[d].depth <= nodes[c].depth}

PlacementInvariant ==
    /\ pc = "raised" => report.err # "AssertionError 233"
    /\ Synthesized =>
         \A dn \in AllDecisionNodes : \A spec \in Resolved(dn.tree) :
           /\ DeepestLcaWithGuesses(spec, dn.guesses) = {dn.tree.node}
           /\ best_lcas(spec, dn.guesses) \subseteq {dn.tree.node, AttributeError}

\* A reported tree with a decision node below a guess whose subject is not
\* the root, so that its placement was decided by an LCA.
PlacementInvariant_witness ==
    /\ pc = "done"
    /\ \E dn \in AllDecisionNodes :
         /\ dn.guesses # {}
         /\ dn.tree.node # TREE

---------------------------------------------------------------------------
(* C3: on a well-formed tree lca_2nodes(a, b) never raises, terminates,    *)
(* and returns the deepest node that is an ancestor-or-self of both; so    *)
(* lca_2nodes(a, a) is a and lca_2nodes with the root is the root.         *)
LcaReturnsDeepestCommonAncestor ==
    /\ [](WellFormedTree => lcaSt.at # "raised")
    /\ [](WellFormedTree /\ lcaSt.at = "returned" =>
            LET a == lcaSt.args[1]
                b == lcaSt.args[2]
                r == lcaSt.a
            IN  /\ r \in CommonAncestors(a, b)
                /\ \A c \in CommonAncestors(a, b) : nodes[c].depth <= nodes[r].depth
                /\ a = b => r = a
                /\ (a = TREE \/ b = TREE) => r = TREE)
    /\ (WellFormedTree /\ lcaSt.at \in {"loopA", "loopB", "loopBoth"})
          ~> (lcaSt.at = "returned")

\* A call on two nodes of different depths, neither above the other, that
\* has returned.
LcaReturnsDeepestCommonAncestor_witness ==
    /\ WellFormedTree
    /\ lcaSt.at = "returned"
    /\ nodes[lcaSt.args[1]].depth > nodes[lcaSt.args[2]].depth
    /\ lcaSt.a \notin {lcaSt.args[1], lcaSt.args[2]}

---------------------------------------------------------------------------
(* C4: after the binder has processed its pairs, every node's leaves are   *)
(* the union of its children's leaves plus its own species label, and the  *)
(* root's leaves are exactly the candidate labels.  Stated for well-formed *)
(* trees, where nothing but the binder decides it.                         *)
BinderLeafSets ==
    (pc = "bind" /\ WellFormedTree) =>
      /\ \A n \in DOMAIN nodes :
           nodes[n].leaves =
             UNION {nodes[c].leaves : c \in Range(nodes[n].children)}
             \cup (IF nodes[n].species # None THEN {nodes[n].species} ELSE {})
      /\ TREE # None => nodes[TREE].leaves = DOMAIN SPECIES

---------------------------------------------------------------------------
(* C5: whatever order the candidate sets are iterated in, every run on the *)
(* same tree, candidates and order synthesizes the same guess and the same *)
(* outcome-to-child mapping at every node, and reports the same text.      *)
SynthesisIsDeterministic ==
    pc \in {"decided", "done"} =>
      /\ \A dn \in AllDecisionNodes : \A i, j \in DOMAIN dn.tree.subs :
           i # j => dn.tree.subs[i].node # dn.tree.subs[j].node
      /\ Cardinality(print_decision_tree(DECIDE, {})) = 1
      /\ \A t \in order_to_decision_tree(TREE, nodes[TREE].leaves, ORDER) :
           /\ t.ok
           /\ BranchMap(t) = BranchMap(DECIDE)
           /\ print_decision_tree(t, {}) = print_decision_tree(DECIDE, {})

\* A reported run whose root buckets were built in the order opposite to
\* the order they are reported in.
SynthesisIsDeterministic_witness ==
    /\ pc = "done"
    /\ Len(DECIDE.subs) = 2
    /\ nodes[DECIDE.subs[1].node].depth > nodes[DECIDE.subs[2].node].depth

---------------------------------------------------------------------------
(* C6: at every decision node print_decision_tree returns the path-length  *)
(* statistics: sum_guesses is the sum over the species resolved at or      *)
(* below the node of the guesses needed to reach them from the node,       *)
(* max_guesses the largest such number (1 without children), and the       *)
(* species returned are those resolved at or below the node.               *)
StatisticsMatchPathLengths ==
    pc \in {"decided", "done"} =>
      \A dn \in AllDecisionNodes :
        \A r \in print_decision_tree(dn.tree, dn.guesses) :
          r.ok =>
            /\ r.species = Resolved(dn.tree)
            /\ r.sum_guesses = SumOver(dn.tree, Resolved(dn.tree))
            /\ r.max_guesses =
                 SetMax({GuessesTo(dn.tree, s) : s \in Resolved(dn.tree)})
            /\ dn.tree.subs = <<>> => r.max_guesses = 1

\* A reported tree with a species three guesses deep.
StatisticsMatchPathLengths_witness ==
    /\ pc = "done"
    /\ report.max_guesses = 3
    /\ report.sum_guesses = 6

---------------------------------------------------------------------------
(* C7: the parser never returns a tree in which a node other than the      *)
(* root was left without a parent.  Stated for outlines whose names are    *)
(* all different.                                                          *)
ParserRejectsUnparentedNode ==
    (pc = "bind" /\ UniqueNames) => NoUnparentedNode

---------------------------------------------------------------------------
(* C8: in the tree the parser returns every node except the root has       *)
(* exactly one parent, whose depth is one less than the node's.  Stated    *)
(* for outlines whose names are all different and whose nodes all found a  *)
(* parent.                                                                 *)
ParserDepthIsParentDepthPlusOne ==
    (pc = "bind" /\ UniqueNames /\ NoUnparentedNode) =>
      \A n \in DOMAIN nodes : n # TREE =>
        /\ Cardinality({p \in DOMAIN nodes : n \in Range(nodes[p].children)}) = 1
        /\ nodes[n].parent # None
        /\ nodes[n].depth = nodes[nodes[n].parent].depth + 1

---------------------------------------------------------------------------
(* C9: the parser never returns a tree that holds two nodes of one name,   *)
(* the registry naming only one of them.  Stated for outlines whose tree   *)
(* is otherwise well formed.                                               *)
ParserRejectsDuplicateName ==
    (pc = "bind" /\ WellFormedTree) =>
      \A n \in DOMAIN nodes : SCIENTIFIC[nodes[n].scientific] = n

---------------------------------------------------------------------------
(* C10: build_minavg_order(root) lists every candidate label exactly once; *)
(* the labels of every subtree form one block, the children's blocks in    *)
(* non-increasing order of the children's leaf counts (equal counts: in    *)
(* the order of the blocks compared as lists), the node's own label last.  *)
(* Stated for well-formed trees.                                           *)
RECURSIVE Subtree(_)
Subtree(n) == {n} \cup UNION {Subtree(c) : c \in Range(nodes[n].children)}

\* The positions of ORDER that hold the labels bound in the subtree of n.
Block(n) == {i \in DOMAIN ORDER : \E m \in Subtree(n) : nodes[m].species = ORDER[i]}

OrderIsBlockwise ==
    \A n \in Subtree(TREE) :
      /\ \A i, j \in Block(n) : \A k \in i..j : k \in Block(n)
      /\ nodes[n].species # None =>
           Block(n) # {} /\ ORDER[SetMax(Block(n))] = nodes[n].species
      /\ \A c, d \in Range(nodes[n].children) :
           LET cc == Cardinality(nodes[c].leaves)
               cd == Cardinality(nodes[d].leaves)
           IN  (/\ Block(c) # {}
                /\ Block(d) # {}
                /\ \/ cc > cd
                   \/ cc = cd /\ ORDER[SetMin(Block(c))] < ORDER[SetMin(Block(d))])
               => SetMax(Block(c)) < SetMin(Block(d))

OrderListsEveryCandidateOnce ==
    (pc \in {"ordered", "decided", "done"} /\ WellFormedTree) =>
      /\ Range(ORDER) = DOMAIN SPECIES
      /\ Len(ORDER) = Cardinality(DOMAIN SPECIES)
      /\ OrderIsBlockwise

====
